---- MODULE Spec2Model ----
(***************************************************************************)
(* Dependency analyzer (analyze_dependencies.py): analyze_directory scans  *)
(* the source files of a tree into a module map, counts reverse            *)
(* references, then runs find_circular_dependencies, analyze_coupling and  *)
(* detect_layer_violations over the map.                                   *)
(*                                                                         *)
(* A path string is modelled by the sequence of its '/'-separated          *)
(* segments.  In the module map a path is modelled by a positive integer,  *)
(* the position of its file in disk, the regular files of the file system  *)
(* in the (lexicographic) order of their path strings.                     *)
(***************************************************************************)
EXTENDS Integers, Sequences, FiniteSets, TLC

\* ---- bounds of the model ------------------------------------------------
MaxFiles == 3           \* source files in an exhaustively explored tree
MaxEdges == 4           \* resolved imports in an exhaustively explored tree
MaxUnreadable == 1      \* files whose open() fails
MaxPerm == 2            \* up to this many files, every walk order is explored
MaxFreeImports == 6     \* up to this many imports in the module map, every
                        \* iteration order of the imports is explored
MaxCouplingFiles == 12  \* source files in a tree of the coupling family
MaxLayerEdges == 2      \* imports of the importing file of a layered tree
MaxVariants == 2        \* files named lib/u, with or without a suffix, in a tree
MaxDepth == 2           \* nested calls the interpreter allows in a tree of the
                        \* deep family

\* ---- program constants ---------------------------------------------------
HIGH_COUPLING_THRESHOLD == 5
TOTAL_COUPLING_THRESHOLD == 10

\* sys.getrecursionlimit() of CPython when nothing sets it
RecursionLimit == 1000

VARIABLES
    dirpath,      \* analyze_directory's argument
    disk,         \* the regular files of the file system, as absolute paths
    walk,         \* the files os.walk has yet to yield, in order, each with
                  \* what reading it gives
    pc,           \* position in analyze_directory
    modules,      \* dict path -> ModuleInfo
    order,        \* insertion order of the keys of modules
    visited,      \* find_circular_dependencies: visited
    rec_stack,    \* find_circular_dependencies: rec_stack
    stack,        \* active dfs calls, innermost last
    cycles,       \* find_circular_dependencies: cycles (as emitted)
    circular_dependencies,  \* DependencyReport.circular_dependencies
    coupling_issues,        \* DependencyReport.coupling_issues
    layer_violations,       \* DependencyReport.layer_violations
    recursion_limit         \* the depth of nested calls of dfs the interpreter
                            \* allows: its recursion limit less the frames in use
                            \* when find_circular_dependencies is called

vars == << dirpath, disk, walk, pc, modules, order, visited, rec_stack,
           stack, cycles, circular_dependencies, coupling_issues,
           layer_violations, recursion_limit >>

\* ---- helpers on sets and sequences ---------------------------------------
Range(s) == { s[i] : i \in DOMAIN s }

Min(S) == CHOOSE x \in S : \A y \in S : x <= y

Max(S) == CHOOSE x \in S : \A y \in S : x >= y

Perms(S) == { s \in [1..Cardinality(S) -> S] : Range(s) = S }

RECURSIVE Ascending(_)
Ascending(S) == IF S = {} THEN << >> ELSE << Min(S) >> \o Ascending(S \ {Min(S)})

RECURSIVE Descending(_)
Descending(S) == IF S = {} THEN << >> ELSE << Max(S) >> \o Descending(S \ {Max(S)})

\* list.index(x): position of the first occurrence (0 when absent: ValueError)
Index(s, x) == IF x \in Range(s) THEN Min({ i \in DOMAIN s : s[i] = x }) ELSE 0

\* ---- the working directory of the process ----------------------------------
Cwd == << "", "w" >>

\* ---- path strings ----------------------------------------------------------
\* A path string is modelled by str.split('/'): the sequence of its segments,
\* so "a/b.ts" is << "a", "b.ts" >>, "/a" is << "", "a" >> and "" is << "" >>.
Front(s) == SubSeq(s, 1, Len(s) - 1)

Last(s) == s[Len(s)]

\* path.startswith('/')
StartsWithSlash(p) == Len(p) >= 2 /\ p[1] = ""

\* os.path.join(a, b)
Join(a, b) ==
    IF StartsWithSlash(b) THEN b
    ELSE IF Last(a) = "" THEN Front(a) \o b
    ELSE a \o b

\* head.rstrip('/')
RECURSIVE RStripSlashes(_)
RStripSlashes(p) ==
    IF Len(p) >= 2 /\ Last(p) = "" THEN RStripSlashes(Front(p)) ELSE p

\* os.path.dirname(p)
Dirname(p) ==
    IF Len(p) = 1 THEN << "" >>
    ELSE LET head == Append(Front(p), "")
         IN  IF \A i \in DOMAIN head : head[i] = "" THEN head
             ELSE RStripSlashes(head)

\* os.path.normpath of an absolute path, as the sequence of its directory and
\* file names from the filesystem root: "", "." are dropped and ".." takes
\* back the name before it
RECURSIVE Normpath(_, _)
Normpath(p, done) ==
    IF p = << >> THEN done
    ELSE IF Head(p) \in {"", "."} THEN Normpath(Tail(p), done)
    ELSE IF Head(p) = ".." THEN Normpath(Tail(p), IF done = << >> THEN done ELSE Front(done))
    ELSE Normpath(Tail(p), Append(done, Head(p)))

\* the absolute path string of the names from the filesystem root
Rooted(names) == IF names = << >> THEN << "", "" >> ELSE << "" >> \o names

\* os.path.abspath(p)
Abspath(p) == Rooted(Normpath(Join(Cwd, p), << >>))

RECURSIVE CommonPrefix(_, _)
CommonPrefix(a, b) ==
    IF a = << >> \/ b = << >> \/ Head(a) # Head(b) THEN 0
    ELSE 1 + CommonPrefix(Tail(a), Tail(b))

\* rel_list = [pardir] * (len(start_list) - i) + path_list[i:]
RelList(start_list, path_list, i) ==
    [ k \in 1..(Len(start_list) - i) |-> ".." ] \o SubSeq(path_list, i + 1, Len(path_list))

\* if not rel_list: return curdir
JoinRelList(rel_list) == IF rel_list = << >> THEN << "." >> ELSE rel_list

\* the relative path from the names start_list to the names path_list
RelpathOfLists(start_list, path_list) ==
    JoinRelList(RelList(start_list, path_list, CommonPrefix(start_list, path_list)))

\* os.path.relpath(path, start)
Relpath(path, start) ==
    RelpathOfLists(Normpath(Join(Cwd, start), << >>), Normpath(Join(Cwd, path), << >>))

\* normalize_path(path, base_dir): relpath raises ValueError for the empty
\* path, and the path is then returned as it is
NormalizePath(path, base_dir) ==
    IF path = << "" >> THEN path ELSE Relpath(path, base_dir)

\* ---- the file system --------------------------------------------------------
\* s + t for two path strings
Concat(s, t) == Front(s) \o << Last(s) \o t[1] >> \o Tail(t)

\* the directories of the tree, by their names from the root: every directory
\* above a regular file, and the working directory with the directories
\* above it (disk holds normalised absolute paths, so the names of a file are
\* the segments after the first)
IsDir(d) ==
    \/ \E i \in DOMAIN disk :
         Len(d) < Len(disk[i]) - 1 /\ SubSeq(disk[i], 2, Len(d) + 1) = d
    \/ Len(d) <= Len(Cwd) - 1 /\ SubSeq(Cwd, 2, Len(d) + 1) = d

NoEntry == << "" >>

\* the kernel's walk along the segments p from the directory at: the names
\* of the entry reached, or NoEntry when a segment is looked up in something
\* that is no directory
RECURSIVE Lookup(_, _)
Lookup(p, at) ==
    IF p = << >> THEN at
    ELSE IF Head(p) \in {"", ".", ".."}
         THEN IF ~IsDir(at) THEN NoEntry
              ELSE Lookup(Tail(p), IF Head(p) = ".." /\ at # << >> THEN Front(at) ELSE at)
         ELSE Lookup(Tail(p), Append(at, Head(p)))

\* the entry a path string names
Entry(p) ==
    IF p = << "" >> THEN NoEntry
    ELSE IF StartsWithSlash(p) THEN Lookup(Tail(p), << >>)
    ELSE Lookup(p, Tail(Cwd))

\* os.path.isfile(p)
IsFile(p) == (<< "" >> \o Entry(p)) \in Range(disk)

\* os.path.exists(p)
IsDirEntry(entry) == entry # NoEntry /\ IsDir(entry)

Exists(p) == IsFile(p) \/ IsDirEntry(Entry(p))

\* ---- resolve_import --------------------------------------------------------
\* resolve_import's None result
NoPath == << >>

\* variant: '.tsx' is tried before '.ts' and '/index.js' before '/index.ts'
ProbeExtsSwapped ==
    << << "" >>, << ".tsx" >>, << ".ts" >>, << ".js" >>, << ".jsx" >>, << ".py" >>,
       << "", "index.js" >>, << "", "index.ts" >> >>

\* ['', '.ts', '.tsx', '.js', '.jsx', '.py', '/index.ts', '/index.js']
ProbeExts ==
    << << "" >>, << ".ts" >>, << ".tsx" >>, << ".js" >>, << ".jsx" >>, << ".py" >>,
       << "", "index.ts" >>, << "", "index.js" >> >>

\* variant: when no candidate is a regular file the path itself is returned
RECURSIVE ProbeOrStart(_, _, _)
ProbeOrStart(resolved, base_dir, n) ==
    IF n > Len(ProbeExts) THEN NormalizePath(resolved, base_dir)
    ELSE LET full_path == Concat(resolved, ProbeExts[n])
         IN  IF IsFile(full_path) THEN NormalizePath(full_path, base_dir)
             ELSE ProbeOrStart(resolved, base_dir, n + 1)

\* for ext in [...]: if os.path.isfile(resolved + ext): return normalize_path(...)
RECURSIVE Probe(_, _, _)
Probe(resolved, base_dir, n) ==
    IF n > Len(ProbeExts) THEN NoPath
    ELSE LET full_path == Concat(resolved, ProbeExts[n])
         IN  IF IsFile(full_path) THEN NormalizePath(full_path, base_dir)
             ELSE Probe(resolved, base_dir, n + 1)

\* for _ in range(up_count): target_dir = os.path.dirname(target_dir)
RECURSIVE DirnameTimes(_, _)
DirnameTimes(target_dir, up_count) ==
    IF up_count = 0 THEN target_dir
    ELSE DirnameTimes(Dirname(target_dir), up_count - 1)

\* '/'.join(p for p in parts if p != '..')
Remaining(parts) ==
    LET kept == SelectSeq(parts, LAMBDA p : p # "..")
    IN  IF kept = << >> THEN << "" >> ELSE kept

\* if import_path.startswith('.'): the three branches of a relative import
RelativeStart(import_path, current_file) ==
    LET first == import_path[1]
        current_dir == Dirname(current_file)
    IN  IF first = "." /\ Len(import_path) >= 2
        THEN Join(current_dir, Tail(import_path))
        ELSE IF first = ".." /\ Len(import_path) >= 2
        THEN LET up_count == Cardinality({ i \in DOMAIN import_path :
                                             import_path[i] = ".." })
             IN  Join(DirnameTimes(current_dir, up_count), Remaining(import_path))
        ELSE Join(current_dir,
                  << IF Len(first) = 1 THEN "" ELSE SubSeq(first, 2, Len(first)) >>
                      \o Tail(import_path))

\* variant: the remainder is joined to the directory of the importing file
AliasStartFromFile(import_path, current_file, base_dir) ==
    Join(Dirname(current_file), Tail(import_path))

\* resolved = os.path.join(base_dir, import_path[2:])
AliasStart(import_path, current_file, base_dir) ==
    Join(base_dir, Tail(import_path))

\* variant: every bare specifier is taken for a local file
LocalStartUnchecked(import_path, base_dir) ==
    Join(base_dir, import_path)

\* potential_local if it exists, as it is or with '.ts', and NoPath for an
\* external package
LocalStart(import_path, base_dir) ==
    LET potential_local == Join(base_dir, import_path)
    IN  IF Exists(potential_local) \/ Exists(Concat(potential_local, << ".ts" >>))
        THEN potential_local
        ELSE NoPath

\* the path the probing starts from, or NoPath for an external package
Resolved(import_path, current_file, base_dir) ==
    LET first == import_path[1]
    IN  IF Len(first) >= 1 /\ SubSeq(first, 1, 1) = "."
        THEN RelativeStart(import_path, current_file)
        ELSE IF first \in {"@", "~"} /\ Len(import_path) >= 2
        THEN AliasStart(import_path, current_file, base_dir)
        ELSE IF ~StartsWithSlash(import_path)
        THEN LocalStart(import_path, base_dir)
        ELSE import_path

ResolveImport(import_path, current_file, base_dir) ==
    LET resolved == Resolved(import_path, current_file, base_dir)
    IN  IF resolved = NoPath THEN NoPath ELSE Probe(resolved, base_dir, 1)

\* None as an entry of a list of module paths
None == 0

\* analyze_file's None result
NoModule == [path |-> None, imports |-> {}, import_count |-> 0, imported_by_count |-> 0]

\* ---- analyze_file --------------------------------------------------------
\* the module path standing for a root-relative path string
PathId(rel_path, base_dir) == Index(disk, Abspath(Join(base_dir, rel_path)))

\* the root-relative path string of a module path
PathName(path, base_dir) == NormalizePath(disk[path], base_dir)

\* extract_imports_js_ts, extract_imports_python: content is the import paths
\* the patterns match in the text, in the order of the matches; each is
\* resolved and kept "if resolved"
RECURSIVE ExtractImports(_, _, _)
ExtractImports(content, filepath, base_dir) ==
    IF content = << >> THEN << >>
    ELSE LET resolved == ResolveImport(Head(content), filepath, base_dir)
             rest == ExtractImports(Tail(content), filepath, base_dir)
         IN  SelectSeq(<< resolved >>, LAMBDA r : r # NoPath) \o rest

\* set(imports), as module paths
Deduped(imports, base_dir) == { PathId(imports[i], base_dir) : i \in DOMAIN imports }

\* ModuleInfo(path=rel_path, imports=list(set(imports)), exports=exports,
\* import_count=len(set(imports)))
ModuleInfo(path, imports, base_dir) ==
    [ path |-> path,
      imports |-> Deduped(imports, base_dir),
      import_count |-> Cardinality(Deduped(imports, base_dir)),
      imported_by_count |-> 0 ]

\* variant: import_count is len(imports), every resolved import counted
AnalyzeFileCountsAll(file, base_dir) ==
    IF ~file.readable THEN NoModule
    ELSE LET rel_path == NormalizePath(file.filepath, base_dir)
             imports == ExtractImports(file.content, file.filepath, base_dir)
         IN  [ ModuleInfo(PathId(rel_path, base_dir), imports, base_dir)
                 EXCEPT !.import_count = Len(imports) ]

\* variant: a file that cannot be read yields a module without imports
AnalyzeFileEmptyOnError(file, base_dir) ==
    LET rel_path == NormalizePath(file.filepath, base_dir)
        imports == IF file.readable
                   THEN ExtractImports(file.content, file.filepath, base_dir)
                   ELSE << >>
    IN  ModuleInfo(PathId(rel_path, base_dir), imports, base_dir)

\* file: [filepath, readable, content]
AnalyzeFile(file, base_dir) ==
    IF ~file.readable THEN NoModule
    ELSE LET rel_path == NormalizePath(file.filepath, base_dir)
             imports == ExtractImports(file.content, file.filepath, base_dir)
         IN  ModuleInfo(PathId(rel_path, base_dir), imports, base_dir)

\* ---- analyze_directory: second pass --------------------------------------
\* imported_by_count[p] after "for info in modules.values(): for imp in
\* info.imports: imported_by_count[imp] += 1" (imports holds no duplicate, so
\* a module adds one for each of its imports)
\* variant: counts only the other modules that import p
RECURSIVE ImportedByCountOthers(_, _, _)
ImportedByCountOthers(p, mods, ord) ==
    IF ord = << >> THEN 0
    ELSE (IF p \in mods[Head(ord)].imports /\ Head(ord) # p THEN 1 ELSE 0)
         + ImportedByCountOthers(p, mods, Tail(ord))

\* variant: counts the importers inserted into the map before p
ImportedByCountEarlier(p, mods, ord) ==
    Cardinality({ i \in DOMAIN ord : i < Index(ord, p) /\ p \in mods[ord[i]].imports })

RECURSIVE ImportedByCount(_, _, _)
ImportedByCount(p, mods, ord) ==
    IF ord = << >> THEN 0
    ELSE (IF p \in mods[Head(ord)].imports THEN 1 ELSE 0)
         + ImportedByCount(p, mods, Tail(ord))

\* for path, info in modules.items(): info.imported_by_count = imported_by_count[path]
UpdateImportedBy(mods, ord) ==
    [ p \in DOMAIN mods |->
        [mods[p] EXCEPT !.imported_by_count = ImportedByCount(p, mods, ord)] ]

\* ---- find_circular_dependencies ------------------------------------------
\* sorted(xs) for a list of paths
RECURSIVE InsertPath(_, _)
InsertPath(x, s) ==
    IF s = << >> THEN << x >>
    ELSE IF x < Head(s) THEN << x >> \o s
    ELSE << Head(s) >> \o InsertPath(x, Tail(s))

RECURSIVE Sorted(_)
Sorted(s) == IF s = << >> THEN << >> ELSE InsertPath(Head(s), Sorted(Tail(s)))

\* normalized = tuple(sorted(cycle.cycle))
Normalized(cycle) == Sorted(cycle)

\* the entries of cs with their places and their normalized forms
Numbered(cs) == { << i, Normalized(cs[i]) >> : i \in DOMAIN cs }

\* the entries at the places of kept, in the order of cs
Selected(cs, kept) ==
    [ n \in 1..Cardinality(kept) |->
        cs[CHOOSE i \in kept : Cardinality({ j \in kept : j <= i }) = n] ]

\* variant: the membership test of the deduplication loop is inverted
UniqueCyclesInverted(cs, seen_cycles, unique_cycles) ==
    LET numbered == Numbered(cs)
        kept == { p[1] : p \in { q \in numbered : q[2] \in seen_cycles } }
    IN  unique_cycles \o Selected(cs, kept)

\* the deduplication loop over cycles, with seen_cycles and unique_cycles: a
\* cycle is appended when its normalized form is not in seen_cycles, which by
\* then holds the normalized forms of the cycles before it
UniqueCycles(cs, seen_cycles, unique_cycles) ==
    LET numbered == Numbered(cs)
        kept == { p[1] : p \in { q \in numbered :
                                    /\ q[2] \notin seen_cycles
                                    /\ \A r \in numbered : r[1] < q[1] => r[2] # q[2] } }
    IN  unique_cycles \o Selected(cs, kept)

\* the imports of a node the dfs loop will iterate ("if node in modules")
ImportsOf(node) == IF node \in DOMAIN modules THEN modules[node].imports ELSE {}

\* variant: emits the whole path instead of the part from the node on
DfsWholePath(node, path, stk) ==
    IF node \in rec_stack
    THEN /\ cycles' = Append(cycles, path)
         /\ stack' = stk
         /\ UNCHANGED << visited, rec_stack, pc >>
    ELSE IF node \in visited
    THEN /\ stack' = stk
         /\ UNCHANGED << visited, rec_stack, cycles, pc >>
    ELSE /\ visited' = visited \cup {node}
         /\ rec_stack' = rec_stack \cup {node}
         /\ stack' = Append(stk, [ node |-> node,
                                   path |-> Append(path, node),
                                   todo |-> ImportsOf(node) ])
         /\ UNCHANGED << cycles, pc >>

\* variant: tests visited before rec_stack
DfsVisitedFirst(node, path, stk) ==
    IF node \in visited
    THEN /\ stack' = stk
         /\ UNCHANGED << visited, rec_stack, cycles, pc >>
    ELSE /\ visited' = visited \cup {node}
         /\ rec_stack' = rec_stack \cup {node}
         /\ stack' = Append(stk, [ node |-> node,
                                   path |-> Append(path, node),
                                   todo |-> ImportsOf(node) ])
         /\ UNCHANGED << cycles, pc >>

\* variant: a cycle of one module is not reported
DfsNoSelfCycle(node, path, stk) ==
    IF node \in rec_stack
    THEN /\ cycles' = IF Index(path, node) < Len(path)
                      THEN Append(cycles, SubSeq(path, Index(path, node), Len(path)))
                      ELSE cycles
         /\ stack' = stk
         /\ UNCHANGED << visited, rec_stack, pc >>
    ELSE IF node \in visited
    THEN /\ stack' = stk
         /\ UNCHANGED << visited, rec_stack, cycles, pc >>
    ELSE /\ visited' = visited \cup {node}
         /\ rec_stack' = rec_stack \cup {node}
         /\ stack' = Append(stk, [ node |-> node,
                                   path |-> Append(path, node),
                                   todo |-> ImportsOf(node) ])
         /\ UNCHANGED << cycles, pc >>

\* One call dfs(node, path) made with the active calls stk: it emits a cycle
\* and returns, returns at once on a visited node, or marks the node and
\* starts iterating its imports.  path.index(node) raises ValueError when the
\* node is not in path.
Dfs(node, path, stk) ==
    IF node \in rec_stack
    THEN /\ IF node \in Range(path)
            THEN /\ cycles' = Append(cycles, SubSeq(path, Index(path, node), Len(path)))
                 /\ pc' = pc
            ELSE /\ cycles' = cycles
                 /\ pc' = "error"
         /\ stack' = stk
         /\ UNCHANGED << visited, rec_stack >>
    ELSE IF node \in visited
    THEN /\ stack' = stk
         /\ UNCHANGED << visited, rec_stack, cycles, pc >>
    ELSE /\ visited' = visited \cup {node}
         /\ rec_stack' = rec_stack \cup {node}
         /\ stack' = Append(stk, [ node |-> node,
                                   path |-> Append(path, node),
                                   todo |-> ImportsOf(node) ])
         /\ UNCHANGED << cycles, pc >>

\* variant: a call is made however deep the recursion is
CallUnlimited(node, path, stk) == Dfs(node, path, stk)

\* the call dfs(node, path) made with the active calls stk: the interpreter
\* raises RecursionError when it allows no further frame, and the exception
\* leaves find_circular_dependencies
Call(node, path, stk) ==
    IF Len(stk) >= recursion_limit
    THEN /\ pc' = "error"
         /\ stack' = stk
         /\ UNCHANGED << visited, rec_stack, cycles >>
    ELSE Dfs(node, path, stk)

RECURSIVE TotalSize(_, _)
TotalSize(f, S) ==
    IF S = {} THEN 0
    ELSE LET x == CHOOSE y \in S : TRUE IN Cardinality(f[x]) + TotalSize(f, S \ {x})

\* the order in which list(set(imports)) is iterated is arbitrary; every
\* order is explored for a module map of up to MaxFreeImports imports, and
\* the ascending one for a larger map
OrderFree ==
    TotalSize([m \in DOMAIN modules |-> modules[m].imports], DOMAIN modules)
        <= MaxFreeImports

\* ---- analyze_coupling ----------------------------------------------------
\* variant: a module's import of itself is not counted
RECURSIVE ImportedByOthers(_, _, _)
ImportedByOthers(p, mods, ord) ==
    IF ord = << >> THEN 0
    ELSE (IF p \in mods[Head(ord)].imports /\ p \in DOMAIN mods /\ Head(ord) # p
          THEN 1 ELSE 0)
         + ImportedByOthers(p, mods, Tail(ord))

\* imported_by[p] after "for module in modules.values(): for imp in
\* module.imports: if imp in modules: imported_by[imp] += 1"
RECURSIVE ImportedBy(_, _, _)
ImportedBy(p, mods, ord) ==
    IF ord = << >> THEN 0
    ELSE (IF p \in mods[Head(ord)].imports /\ p \in DOMAIN mods THEN 1 ELSE 0)
         + ImportedBy(p, mods, Tail(ord))

\* variant: the thresholds are inclusive
IsIssueInclusive(incoming, outgoing) ==
    \/ incoming + outgoing >= TOTAL_COUPLING_THRESHOLD
    \/ (incoming >= HIGH_COUPLING_THRESHOLD /\ outgoing >= HIGH_COUPLING_THRESHOLD)

\* the condition under which a module is appended to issues
IsIssue(incoming, outgoing) ==
    \/ incoming + outgoing > TOTAL_COUPLING_THRESHOLD
    \/ (incoming > HIGH_COUPLING_THRESHOLD /\ outgoing > HIGH_COUPLING_THRESHOLD)

\* for path, info in modules.items(): ... issues.append(CouplingIssue(...))
RECURSIVE Issues(_, _, _)
Issues(mods, all, ord) ==
    IF ord = << >> THEN << >>
    ELSE LET path == Head(ord)
             outgoing == mods[path].import_count
             incoming == ImportedBy(path, mods, all)
             total == incoming + outgoing
             rest == Issues(mods, all, Tail(ord))
         IN  IF IsIssue(incoming, outgoing)
             THEN << [ module |-> path, incoming |-> incoming,
                       outgoing |-> outgoing, total |-> total ] >> \o rest
             ELSE rest

\* variant: an issue is placed after the later issues of equal total
RankAfterTies(s, i) ==
    1 + Cardinality({ j \in DOMAIN s : s[j].total > s[i].total })
      + Cardinality({ j \in DOMAIN s : j > i /\ s[j].total = s[i].total })

\* sorted(issues, key=lambda x: x.total, reverse=True) is a stable sort: the
\* place of issues[i] in the result is after the issues of greater total and
\* after the earlier issues of equal total
Rank(s, i) ==
    1 + Cardinality({ j \in DOMAIN s : s[j].total > s[i].total })
      + Cardinality({ j \in DOMAIN s : j < i /\ s[j].total = s[i].total })

SortedByTotal(s) ==
    [ n \in DOMAIN s |-> s[CHOOSE i \in DOMAIN s : Rank(s, i) = n] ]

AnalyzeCouplingResult(mods, ord) ==
    SortedByTotal(Issues(mods, ord, ord))

\* variant: one of the two counts above the threshold makes a hub
IsHubEither(issue) ==
    issue.incoming > HIGH_COUPLING_THRESHOLD \/ issue.outgoing > HIGH_COUPLING_THRESHOLD

\* CouplingIssue.is_hub
IsHub(issue) ==
    issue.incoming > HIGH_COUPLING_THRESHOLD /\ issue.outgoing > HIGH_COUPLING_THRESHOLD

\* ---- detect_layer_violations ----------------------------------------------
\* layer_patterns, in the order of the dict; a pattern is the split of its
\* string, so '/ui/' is << "", "ui", "" >>
layer_patterns ==
    << [ layer |-> "presentation",
         patterns |-> << << "", "components", "" >>, << "", "pages", "" >>,
                         << "", "views", "" >>, << "", "ui", "" >> >> ],
       [ layer |-> "application",
         patterns |-> << << "", "services", "" >>, << "", "usecases", "" >>,
                         << "", "application", "" >> >> ],
       [ layer |-> "domain",
         patterns |-> << << "", "domain", "" >>, << "", "models", "" >>,
                         << "", "entities", "" >> >> ],
       [ layer |-> "infrastructure",
         patterns |-> << << "", "infrastructure", "" >>, << "", "repositories", "" >>,
                         << "", "adapters", "" >>, << "", "db", "" >> >> ] >>

\* re.search(pattern, path) for a pattern '/name/.../': the names are whole
\* segments of the path, with a segment before them and one after them
Search(pattern, path) ==
    \E i \in 2..(Len(path) - Len(pattern) + 2) :
        \A k \in 2..(Len(pattern) - 1) : path[i + k - 2] = pattern[k]

\* get_layer's None result
NoLayer == "None"

\* the layers with a pattern that matches, by their place in layer_patterns
Matching(path) ==
    { n \in DOMAIN layer_patterns :
        \E k \in DOMAIN layer_patterns[n].patterns :
            Search(layer_patterns[n].patterns[k], path) }

\* variant: the last matching layer wins
GetLayerLast(path) ==
    LET matching == Matching(path)
    IN  IF matching = {} THEN NoLayer ELSE layer_patterns[Max(matching)].layer

\* get_layer(path): the first layer, in the order of layer_patterns, with a
\* pattern that matches
GetLayer(path) ==
    LET matching == Matching(path)
    IN  IF matching = {} THEN NoLayer ELSE layer_patterns[Min(matching)].layer

allowed ==
    [ presentation |-> {"application", "domain"},
      application |-> {"domain"},
      domain |-> {},
      infrastructure |-> {"domain"} ]

\* the path string that is the key of a module
ModulePath(p) == PathName(p, Abspath(dirpath))

\* variant: only the allowed table is consulted
IsViolationNoSameLayer(source_layer, target_layer) ==
    target_layer \notin allowed[source_layer]

\* target_layer not in allowed.get(source_layer, []) and target_layer != source_layer
IsViolation(source_layer, target_layer) ==
    target_layer \notin allowed[source_layer] /\ target_layer # source_layer

\* variant: an import that is not a key of the module map is skipped
RECURSIVE ImportViolationsKeysOnly(_, _, _)
ImportViolationsKeysOnly(path, source_layer, imports) ==
    IF imports = << >> THEN << >>
    ELSE LET imported == Head(imports)
             target_layer == GetLayer(ModulePath(imported))
             rest == ImportViolationsKeysOnly(path, source_layer, Tail(imports))
         IN  IF target_layer = NoLayer \/ imported \notin DOMAIN modules THEN rest
             ELSE IF IsViolation(source_layer, target_layer)
             THEN << << path, imported, source_layer \o " → " \o target_layer >> >> \o rest
             ELSE rest

\* variant: the target is not classified before the test
RECURSIVE ImportViolationsAnyTarget(_, _, _)
ImportViolationsAnyTarget(path, source_layer, imports) ==
    IF imports = << >> THEN << >>
    ELSE LET imported == Head(imports)
             target_layer == GetLayer(ModulePath(imported))
             rest == ImportViolationsAnyTarget(path, source_layer, Tail(imports))
         IN  IF IsViolation(source_layer, target_layer)
             THEN << << path, imported, source_layer \o " → " \o target_layer >> >> \o rest
             ELSE rest

\* for imported in info.imports: ... violations.append((path, imported, violation_type))
RECURSIVE ImportViolations(_, _, _)
ImportViolations(path, source_layer, imports) ==
    IF imports = << >> THEN << >>
    ELSE LET imported == Head(imports)
             target_layer == GetLayer(ModulePath(imported))
             rest == ImportViolations(path, source_layer, Tail(imports))
         IN  IF target_layer = NoLayer THEN rest
             ELSE IF IsViolation(source_layer, target_layer)
             THEN << << path, imported, source_layer \o " → " \o target_layer >> >> \o rest
             ELSE rest

\* for path, info in modules.items(): the imports of every module are
\* iterated in ascending or in descending order
RECURSIVE Violations(_, _, _)
Violations(mods, ord, descending) ==
    IF ord = << >> THEN << >>
    ELSE LET path == Head(ord)
             imports == IF descending THEN Descending(mods[path].imports)
                        ELSE Ascending(mods[path].imports)
             source_layer == GetLayer(ModulePath(path))
             rest == Violations(mods, Tail(ord), descending)
         IN  IF source_layer = NoLayer THEN rest
             ELSE ImportViolations(path, source_layer, imports) \o rest

\* ---- initial states: the tree handed to analyze_directory -----------------
\* the orders in which os.walk may yield the files
WalkOrders(files) ==
    IF Cardinality(files) <= MaxPerm THEN Perms(files)
    ELSE { Ascending(files), Descending(files) }

\* extensions = ['.js', '.ts', '.jsx', '.tsx', '.py', '.mjs']
Extensions == {".js", ".ts", ".jsx", ".tsx", ".py", ".mjs"}

\* the directories the walk does not descend into
SkippedDirs == {"node_modules", ".git", "__pycache__", "dist", "build", ".venv"}

\* s.endswith(t)
EndsWith(s, t) == Len(s) >= Len(t) /\ SubSeq(s, Len(s) - Len(t) + 1, Len(s)) = t

\* the files of dk that the loop over os.walk(dp) hands to analyze_file
Walked(dp, dk) ==
    { p \in DOMAIN dk :
        LET rel == Relpath(dk[p], Abspath(dp))
        IN  /\ rel[1] # ".."
            /\ \A i \in 1..(Len(rel) - 1) : rel[i] \notin SkippedDirs
            /\ \E ext \in Extensions : EndsWith(Last(rel), ext) }

\* the import paths that name the files by the root alias prefix
Aliased(prefix, files, names) ==
    [ i \in DOMAIN files |-> << prefix >> \o names[files[i]] ]

\* the import paths of a text that imports the files S, in the order of the
\* matches: each file once by its root alias, or after an external package
\* and each file a second time; names[p] is the root-relative path of p
RawImports(S, noisy, names) ==
    IF noisy
    THEN << << "lodash" >> >> \o Aliased("@", Ascending(S), names)
             \o Aliased("~", Descending(S), names)
    ELSE Aliased("@", Ascending(S), names)

\* the root-relative path strings of the files of disk, as a sequence
RootRelative == << >> \o [ p \in DOMAIN disk |-> PathName(p, Abspath(dirpath)) ]

\* variant: the walk yields every file a second time
WalkOfRepeating(files, unreadable, imps, noisy, names) ==
    [ i \in 1..(2 * Len(files)) |->
        [ filepath |-> Join(dirpath, names[files[((i - 1) % Len(files)) + 1]]),
          readable |-> files[((i - 1) % Len(files)) + 1] \notin unreadable,
          content |-> RawImports(imps[files[((i - 1) % Len(files)) + 1]], noisy, names) ] ]

\* what the walk yields in the order files: filepath is os.path.join(root,
\* filename), and the text of the file f imports the files imps[f]
WalkOf(files, unreadable, imps, noisy, names) ==
    [ i \in DOMAIN files |->
        [ filepath |-> Join(dirpath, names[files[i]]),
          readable |-> files[i] \notin unreadable,
          content |-> RawImports(imps[files[i]], noisy, names) ] ]

\* the name of the p-th file of a flat tree
FileName(p, ext) == "m" \o (IF p < 10 THEN "0" ELSE "") \o ToString(p) \o ext

\* count files in the directory p of the working directory, in path order:
\* the first n are source files, the others are files of another kind
FlatDisk(count, n) ==
    [ p \in 1..count |->
        Abspath(<< "p", FileName(p, IF p <= n THEN ".ts" ELSE ".css") >>) ]

\* the state in which analyze_directory starts
Started ==
    /\ pc = "scan"
    /\ modules = << >>
    /\ order = << >>
    /\ visited = {}
    /\ rec_stack = {}
    /\ stack = << >>
    /\ cycles = << >>
    /\ circular_dependencies = << >>
    /\ coupling_issues = << >>
    /\ layer_violations = << >>

\* analyze_directory starts with the recursion limit of the interpreter left
AnalysisStart ==
    /\ Started
    /\ recursion_limit = RecursionLimit

\* the trees of n source files 1..n: every tree with up to MaxEdges resolved
\* imports (a target above n is a file the walk does not scan), and the trees
\* in which every file imports every other file
Trees(n) ==
    { imps \in [1..n -> SUBSET (1..MaxFiles)] : TotalSize(imps, 1..n) <= MaxEdges }
    \cup { [f \in 1..n |-> (1..n) \ {f}], [f \in 1..n |-> 1..n] }

Init ==
    /\ dirpath = << "p" >>
    /\ \E n \in 0..MaxFiles :
         /\ disk = FlatDisk(MaxFiles, n)
         /\ \E names \in { RootRelative }, orders \in { WalkOrders(Walked(dirpath, disk)) } :
              \E imps \in Trees(n) :
                \E unreadable \in { U \in SUBSET (1..n) :
                                      /\ Cardinality(U) <= MaxUnreadable
                                      /\ \A f \in U : imps[f] = {} } :
                  \E files \in orders, noisy \in BOOLEAN :
                    walk = WalkOf(files, unreadable, imps, noisy, names)
    /\ AnalysisStart

\* the exhaustively explored trees, walked in path order, with texts that
\* import each file once
InitRun ==
    /\ dirpath = << "p" >>
    /\ \E n \in 0..MaxFiles :
         /\ disk = FlatDisk(MaxFiles, n)
         /\ \E names \in { RootRelative }, files \in { Ascending(Walked(dirpath, disk)) } :
              \E imps \in Trees(n) :
                \E unreadable \in { U \in SUBSET (1..n) :
                                      /\ Cardinality(U) <= MaxUnreadable
                                      /\ \A f \in U : imps[f] = {} } :
                  walk = WalkOf(files, unreadable, imps, FALSE, names)
    /\ AnalysisStart

\* the deep family: the exhaustively explored trees, analysed when the
\* interpreter allows up to MaxDepth nested calls of dfs
InitDeep ==
    /\ dirpath = << "p" >>
    /\ \E n \in 0..MaxFiles :
         /\ disk = FlatDisk(MaxFiles, n)
         /\ \E names \in { RootRelative }, files \in { Ascending(Walked(dirpath, disk)) } :
              \E imps \in Trees(n) :
                walk = WalkOf(files, {}, imps, FALSE, names)
    /\ Started
    /\ recursion_limit \in 1..MaxDepth

\* the coupling family: MaxCouplingFiles source files, of which the files
\* 1..k each import the files 1..j and the other files each import the files
\* 1..l, where l is 0, j - 1 or j; the file MaxCouplingFiles + 1 is one the
\* walk does not scan
InitCoupling ==
    /\ dirpath = << "p" >>
    /\ disk = FlatDisk(MaxCouplingFiles + 1, MaxCouplingFiles)
    /\ \E names \in { RootRelative }, orders \in { WalkOrders(Walked(dirpath, disk)) } :
           \E k \in 0..MaxCouplingFiles :
             \E j \in 0..(MaxCouplingFiles + 1) :
               \E l \in {0, Max({j - 1, 0}), j} :
                 \E files \in orders :
                   walk = WalkOf(files, {},
                                 [ f \in 1..MaxCouplingFiles |->
                                     1..(IF f <= k THEN j ELSE l) ],
                                 FALSE, names)
    /\ AnalysisStart

\* a tree with directories of every layer under the directory p of the working
\* directory, in path order
LayeredDisk ==
    << Abspath(<< "p", "components", "a.ts" >>),
       Abspath(<< "p", "src", "components", "b.ts" >>),
       Abspath(<< "p", "src", "components", "domain", "c.ts" >>),
       Abspath(<< "p", "src", "db", "d.ts" >>),
       Abspath(<< "p", "src", "db", "services", "e.ts" >>),
       Abspath(<< "p", "src", "domain", "f.ts" >>),
       Abspath(<< "p", "src", "domain", "g.ts" >>),
       Abspath(<< "p", "src", "domain", "ui", "h.ts" >>),
       Abspath(<< "p", "src", "models.ts" >>),
       Abspath(<< "p", "src", "services", "i.ts" >>),
       Abspath(<< "p", "src", "services", "ui", "j.css" >>),
       Abspath(<< "p", "src", "util", "k.ts" >>) >>

\* the layered family: one source file of the layered tree, or every one of
\* them, imports the same files of the tree, up to MaxLayerEdges of them, and
\* the other files import nothing
InitLayers ==
    /\ dirpath = << "p" >>
    /\ disk = LayeredDisk
    /\ \E names \in { RootRelative }, sources \in { Walked(dirpath, disk) } :
           \E importers \in { { f } : f \in sources } \cup { sources } :
             \E targets \in { T \in SUBSET DOMAIN disk : Cardinality(T) <= MaxLayerEdges } :
               \E files \in { Ascending(sources) } :
                 walk = WalkOf(files, {},
                               [ f \in sources |-> IF f \in importers THEN targets ELSE {} ],
                               FALSE, names)
    /\ AnalysisStart

\* an import path extract_imports_python can make of a dotted module name
\* ([\w.]+ with '.' replaced by '/') that starts and ends with a name
IsModulePath(import_path) ==
    \A i \in DOMAIN import_path :
        /\ import_path[i] \notin {"", "@", "~"}
        /\ \A k \in 1..Len(import_path[i]) : SubSeq(import_path[i], k, k) # "."

\* what the walk yields in the order files when every file imports the paths
\* of content; a Python file has the ones its patterns can match
WalkOfContent(files, content, names) ==
    [ i \in DOMAIN files |->
        [ filepath |-> Join(dirpath, names[files[i]]),
          readable |-> TRUE,
          content |-> IF EndsWith(Last(names[files[i]]), ".py")
                      THEN SelectSeq(content, IsModulePath)
                      ELSE content ] ]

\* the files of the trees of the resolution family, in path order: d.ts in
\* the working directory, the tree p and q/z.ts beside it
ResolveFiles ==
    << << "d.ts" >>,
       << "p", "a", "b", "c.ts" >>,
       << "p", "a", "b", "e.ts" >>,
       << "p", "a", "d.ts" >>,
       << "p", "a", "x", "y.ts" >>,
       << "p", "d.ts" >>,
       << "p", "lib", "u" >>,
       << "p", "lib", "u.js" >>,
       << "p", "lib", "u.jsx" >>,
       << "p", "lib", "u.py" >>,
       << "p", "lib", "u.ts" >>,
       << "p", "lib", "u.tsx" >>,
       << "p", "lib", "u", "index.js" >>,
       << "p", "lib", "u", "index.ts" >>,
       << "p", "x", "d.ts" >>,
       << "q", "z.ts" >> >>

\* the files of ResolveFiles named lib/u, with or without a suffix
Variants == { i \in DOMAIN ResolveFiles : Len(ResolveFiles[i]) >= 2 /\ ResolveFiles[i][2] = "lib" }

\* the sets of variants a tree can hold: lib/u is a file or a directory
VariantSets ==
    { V \in SUBSET Variants :
        /\ Cardinality(V) <= MaxVariants
        /\ ~\E i, j \in V : Len(ResolveFiles[i]) = 3 /\ ResolveFiles[i][3] = "u"
                              /\ Len(ResolveFiles[j]) = 4 }

\* the tree with the variants V
ResolveDisk(V) ==
    LET kept == { i \in DOMAIN ResolveFiles : i \notin Variants \/ i \in V }
        files == Ascending(kept)
    IN  [ i \in DOMAIN files |-> Abspath(ResolveFiles[files[i]]) ]

\* import paths that do not name lib/u
Specifiers ==
    { << ".", "e" >>, << ".", "e.ts" >>, << ".", "x", "..", "e" >>,
      << "..", "d" >>, << "..", "x", "d" >>, << "..", "x", "..", "d" >>,
      << "..", "..", "d" >>, << "..", "..", "..", "d" >>,
      << "..", "..", "..", "..", "..", "d" >>,
      << ".." >>, << "." >>, << ".e" >>,
      << "@", "a", "d" >>, << "~", "a", "d" >>, << "@", "a", "d.ts" >>,
      << "@", "..", "q", "z" >>, << "~", "a", "b" >>,
      << "lodash" >>, << "a" >>, << "d" >>, << "a", "d" >>, << "a", "b", "e.ts" >>,
      << "", "w", "p", "a", "d" >>, << "", "w", "q", "z" >>, << "", "w", "none" >> }

\* import paths that name lib/u
VariantSpecifiers ==
    { << "@", "lib", "u" >>, << "~", "lib", "u" >>, << "lib", "u" >>,
      << ".", "lib", "u" >>, << "..", "lib", "u" >>, << "..", "..", "lib", "u" >>,
      << "", "w", "p", "lib", "u" >> }

\* the resolution family: the tree p, named by a relative or by an absolute
\* path, in which every source file has the same text with one import; a
\* tree without variants for the import paths of Specifiers, and every tree
\* of up to MaxVariants variants for those of VariantSpecifiers
InitResolve ==
    /\ dirpath \in { << "p" >>, << "", "w", "p" >> }
    /\ \E V \in VariantSets :
         /\ disk = ResolveDisk(V)
         /\ \E names \in { RootRelative } :
                \E import_path \in IF V = {} THEN Specifiers \cup VariantSpecifiers
                                    ELSE VariantSpecifiers :
                  \E files \in { Ascending(Walked(dirpath, disk)) } :
                    walk = WalkOfContent(files, << import_path >>, names)
    /\ AnalysisStart

\* ---- actions -------------------------------------------------------------
\* one iteration of the os.walk loop: analyze_file and the insertion
ScanFile ==
    /\ pc = "scan"
    /\ walk # << >>
    /\ \E info \in { AnalyzeFile(Head(walk), Abspath(dirpath)) } :
           IF info # NoModule
           THEN /\ modules' = [p \in DOMAIN modules \cup {info.path} |->
                                 IF p = info.path THEN info ELSE modules[p]]
                /\ order' = IF info.path \in DOMAIN modules THEN order
                            ELSE Append(order, info.path)
           ELSE UNCHANGED << modules, order >>
    /\ walk' = Tail(walk)
    /\ UNCHANGED << recursion_limit, dirpath, disk, layer_violations, pc, visited, rec_stack, stack, cycles,
                    circular_dependencies, coupling_issues >>

\* variant: the imported_by_count pass does not wait for the end of the walk
CountImportedByEarly ==
    /\ pc = "scan"
    /\ modules' = UpdateImportedBy(modules, order)
    /\ pc' = "cycles"
    /\ UNCHANGED << recursion_limit, dirpath, disk, layer_violations, walk, order, visited, rec_stack, stack,
                    cycles, circular_dependencies, coupling_issues >>

\* the walk is exhausted: the imported_by_count pass
CountImportedBy ==
    /\ pc = "scan"
    /\ walk = << >>
    /\ modules' = UpdateImportedBy(modules, order)
    /\ pc' = "cycles"
    /\ UNCHANGED << recursion_limit, dirpath, disk, layer_violations, walk, order, visited, rec_stack, stack,
                    cycles, circular_dependencies, coupling_issues >>

\* variant: only the first module of the map is a start of the dfs
UnvisitedFirst == { i \in DOMAIN order : i = 1 /\ order[i] \notin visited }

\* the modules the loop "for module in modules" has yet to start a dfs from
Unvisited == { i \in DOMAIN order : order[i] \notin visited }

\* for module in modules: if module not in visited: dfs(module, [])
DfsStart ==
    /\ pc = "cycles"
    /\ stack = << >>
    /\ Unvisited # {}
    /\ Call(order[Min(Unvisited)], << >>, << >>)
    /\ UNCHANGED << recursion_limit, dirpath, disk, layer_violations, walk, modules, order,
                    circular_dependencies, coupling_issues >>

\* one iteration of "for imported in modules[node].imports" in the innermost
\* active call
DfsVisit ==
    /\ pc = "cycles"
    /\ stack # << >>
    /\ LET top == stack[Len(stack)]
       IN  /\ top.todo # {}
           /\ \E imported \in (IF OrderFree THEN top.todo ELSE {Min(top.todo)}) :
                /\ LET stk == [stack EXCEPT ![Len(stack)].todo = @ \ {imported}]
                   IN  IF imported \in DOMAIN modules
                       THEN Call(imported, top.path, stk)
                       ELSE /\ stack' = stk
                            /\ UNCHANGED << visited, rec_stack, cycles, pc >>
    /\ UNCHANGED << recursion_limit, dirpath, disk, layer_violations, walk, modules, order,
                    circular_dependencies, coupling_issues >>

\* variant: the node stays in rec_stack when its call returns
DfsReturnKeeping ==
    /\ pc = "cycles"
    /\ stack # << >>
    /\ LET top == stack[Len(stack)]
       IN  /\ top.todo = {}
           /\ stack' = SubSeq(stack, 1, Len(stack) - 1)
    /\ UNCHANGED << recursion_limit, dirpath, disk, layer_violations, walk, pc, modules, order, visited,
                    rec_stack, cycles, circular_dependencies, coupling_issues >>

\* variant: the loop consumes the imports of the node it iterates
DfsReturnConsuming ==
    /\ pc = "cycles"
    /\ stack # << >>
    /\ LET top == stack[Len(stack)]
       IN  /\ top.todo = {}
           /\ rec_stack' = rec_stack \ {top.node}
           /\ stack' = SubSeq(stack, 1, Len(stack) - 1)
           /\ modules' = [modules EXCEPT ![top.node].imports = {}]
    /\ UNCHANGED << recursion_limit, dirpath, disk, layer_violations, walk, pc, order, visited, cycles,
                    circular_dependencies, coupling_issues >>

\* the loop of the innermost active call is over: rec_stack.remove(node)
DfsReturn ==
    /\ pc = "cycles"
    /\ stack # << >>
    /\ LET top == stack[Len(stack)]
       IN  /\ top.todo = {}
           /\ rec_stack' = rec_stack \ {top.node}
           /\ stack' = SubSeq(stack, 1, Len(stack) - 1)
    /\ UNCHANGED << recursion_limit, dirpath, disk, layer_violations, walk, pc, modules, order, visited, cycles,
                    circular_dependencies, coupling_issues >>

\* the module loop is over: deduplicate and return unique_cycles
Deduplicate ==
    /\ pc = "cycles"
    /\ stack = << >>
    /\ Unvisited = {}
    /\ circular_dependencies' = UniqueCycles(cycles, {}, << >>)
    /\ pc' = "coupling"
    /\ UNCHANGED << recursion_limit, dirpath, disk, layer_violations, walk, modules, order, visited, rec_stack,
                    stack, cycles, coupling_issues >>

AnalyzeCoupling ==
    /\ pc = "coupling"
    /\ coupling_issues' = AnalyzeCouplingResult(modules, order)
    /\ pc' = "layers"
    /\ UNCHANGED << recursion_limit, dirpath, disk, layer_violations, walk, modules, order, visited, rec_stack,
                    stack, cycles, circular_dependencies >>

\* layer_violations=detect_layer_violations(modules)
DetectLayerViolations ==
    /\ pc = "layers"
    /\ \E descending \in BOOLEAN :
         layer_violations' = Violations(modules, order, descending)
    /\ pc' = "done"
    /\ UNCHANGED << recursion_limit, dirpath, disk, walk, modules, order, visited, rec_stack,
                    stack, cycles, circular_dependencies, coupling_issues >>

Next ==
    \/ ScanFile
    \/ CountImportedBy
    \/ DfsStart
    \/ DfsVisit
    \/ DfsReturn
    \/ Deduplicate
    \/ AnalyzeCoupling
    \/ DetectLayerViolations

Spec == Init /\ [][Next]_vars

SpecCoupling == InitCoupling /\ [][Next]_vars

SpecLayers == InitLayers /\ [][Next]_vars

SpecResolve == InitResolve /\ [][Next]_vars

SpecDeep == InitDeep /\ [][Next]_vars

\* the thread is in the os.walk loop with a file left: the step it takes there
\* consumes the file (a step of Next that changes walk is a ScanFile step)
Scanning == pc = "scan" /\ walk # << >> /\ walk' = Tail(walk)

\* the thread is at the call of detect_layer_violations: the step it takes
\* there ends the run
Layering == pc = "layers" /\ pc' = "done"

\* analyze_directory runs in one thread, and the interpreter takes the next
\* step of it whenever there is one: the loop over the files goes on while a
\* file is left, and so do the passes after it
SpecRun ==
    /\ InitRun /\ [][Next]_vars
    /\ WF_walk(Scanning)
    /\ WF_vars(CountImportedBy \/ DfsStart \/ DfsVisit \/ DfsReturn \/ Deduplicate
                  \/ AnalyzeCoupling)
    /\ WF_pc(Layering)

\* ==== properties ==========================================================
Keys == DOMAIN modules

\* an internal edge of the module graph
Edge(a, b) == a \in Keys /\ b \in Keys /\ b \in modules[a].imports

Edges == { e \in Keys \X Keys : Edge(e[1], e[2]) }

\* the edges of the closed walk along s
WalkEdges(s) ==
    { << s[i], s[IF i = Len(s) THEN 1 ELSE i + 1] >> : i \in DOMAIN s }

\* every consecutive pair of s, and its last and first element, is an edge
ClosedWalk(s) ==
    /\ s # << >>
    /\ \A i \in DOMAIN s : Edge(s[i], s[IF i = Len(s) THEN 1 ELSE i + 1])

\* the non-empty sequences without repetition over the paths of an
\* exhaustively explored tree
SimplePaths == UNION { Perms(S) : S \in SUBSET (1..MaxFiles) } \ { << >> }

\* the directed simple cycles of the module graph of such a tree, as node
\* sequences
SimpleCycles == { s \in SimplePaths : ClosedWalk(s) }

\* find_circular_dependencies has just returned
CyclesReturned == pc = "coupling"

\* the modules of the active dfs calls, outermost first
CurrentPath == [ i \in DOMAIN stack |-> stack[i].node ]

\* C1: once the second pass of analyze_directory has run, every module's
\* imported_by_count is the number of modules of the map whose imports
\* contain its path, the module itself included when it imports itself.
ImportedByCountIsInDegree ==
    pc # "scan" =>
        \A m \in Keys :
            modules[m].imported_by_count
                = Cardinality({ n \in Keys : m \in modules[n].imports })

\* a module that imports itself and is imported by another module, right
\* after the second pass
SelfImportCounted ==
    /\ pc = "cycles"
    /\ visited = {}
    /\ \E m \in Keys :
         /\ m \in modules[m].imports
         /\ \E n \in Keys \ {m} : m \in modules[n].imports
         /\ modules[m].imported_by_count >= 2

\* C2: for every directed simple cycle of internal edges, the returned list
\* holds a cycle with the same member set.
FindsEveryCycle ==
    CyclesReturned =>
        \A c \in SimpleCycles :
            \E i \in DOMAIN circular_dependencies :
                Range(circular_dependencies[i]) = Range(c)

\* C3: every returned cycle is a closed walk of the graph, and each emitted
\* cycle is the part of the current DFS path from the first occurrence of
\* the re-encountered import through the current node.
CyclesAreClosedWalks ==
    /\ [](\A i \in DOMAIN circular_dependencies : ClosedWalk(circular_dependencies[i]))
    /\ [][ cycles' # cycles =>
             /\ stack # << >>
             /\ \E imported \in stack[Len(stack)].todo \cap rec_stack :
                  /\ imported \in Range(CurrentPath)
                  /\ cycles' = Append(cycles,
                                      SubSeq(CurrentPath, Index(CurrentPath, imported),
                                             Len(CurrentPath))) ]_vars

\* a returned cycle of two modules that does not start at the first module of
\* the map
InnerCycleReturned ==
    /\ CyclesReturned
    /\ \E i \in DOMAIN circular_dependencies :
         /\ Len(circular_dependencies[i]) = 2
         /\ circular_dependencies[i][1] # order[1]

\* both walks a->b->c->a and a->c->b->a are in the graph
BothWalks(a, b, c) ==
    /\ Edge(a, b) /\ Edge(b, c) /\ Edge(c, a)
    /\ Edge(a, c) /\ Edge(c, b) /\ Edge(b, a)

SingleCycleAndAcyclic ==
    CyclesReturned =>
        LET graph_cycles == SimpleCycles
            graph_edges == Edges
        IN  /\ \A c \in graph_cycles :
                 graph_edges = WalkEdges(c) =>
                     /\ Len(circular_dependencies) = 1
                     /\ Range(circular_dependencies[1]) = Range(c)
            /\ graph_cycles = {} => circular_dependencies = << >>

\* the analysis of a graph whose edges are one cycle through three modules
\* has returned
TriangleAnalysed ==
    /\ CyclesReturned
    /\ \E c \in SimpleCycles : Len(c) = 3 /\ Edges = WalkEdges(c)

\* C6: a module whose imports contain its own path is reported as the cycle
\* of length 1 made of that module.
SelfEdgeReported ==
    CyclesReturned =>
        \A m \in Keys :
            m \in modules[m].imports =>
                \E i \in DOMAIN circular_dependencies :
                    circular_dependencies[i] = << m >>

\* the analysis of a graph with a self-importing module that is also on a
\* longer cycle has returned
SelfEdgeAnalysed ==
    /\ CyclesReturned
    /\ \E m \in Keys :
         /\ m \in modules[m].imports
         /\ \E c \in SimpleCycles : Len(c) > 1 /\ m \in Range(c)

\* ---- coupling ------------------------------------------------------------
InDegree(m) == Cardinality({ n \in Keys : m \in modules[n].imports })

OutDegree(m) == Cardinality(modules[m].imports)

IssuesOf(m) == { i \in DOMAIN coupling_issues : coupling_issues[i].module = m }

\* position of a module in the insertion order of the module map
Position(m) == Index(order, m)

\* C7: a module is in the list of analyze_coupling if and only if its total
\* exceeds 10 or its incoming and its outgoing both exceed 5; such a module
\* is there exactly once and the list holds modules of the graph only.
IssueIffOverThreshold ==
    pc = "done" =>
        /\ \A i \in DOMAIN coupling_issues : coupling_issues[i].module \in Keys
        /\ \A m \in Keys :
             Cardinality(IssuesOf(m))
                = IF \/ InDegree(m) + OutDegree(m) > 10
                     \/ (InDegree(m) > 5 /\ OutDegree(m) > 5)
                  THEN 1 ELSE 0

\* a finished analysis with a module of total 11 in the list and a module of
\* total 10 left out
IssueAtThreshold ==
    /\ pc = "done"
    /\ \E m, n \in Keys :
         /\ InDegree(m) + OutDegree(m) = 11 /\ IssuesOf(m) # {}
         /\ InDegree(n) + OutDegree(n) = 10 /\ IssuesOf(n) = {}

\* C8: an issue is a hub exactly when its module has more than 5 incoming
\* and more than 5 outgoing edges; every such module is in the list; a module
\* with 11 incoming and no outgoing edge is in the list and is no hub.
HubIffBothHigh ==
    pc = "done" =>
        /\ \A i \in DOMAIN coupling_issues :
             IsHub(coupling_issues[i])
                <=> (/\ InDegree(coupling_issues[i].module) > 5
                     /\ OutDegree(coupling_issues[i].module) > 5)
        /\ \A m \in Keys :
             (InDegree(m) > 5 /\ OutDegree(m) > 5) => IssuesOf(m) # {}
        /\ \A m \in Keys :
             (InDegree(m) = 11 /\ OutDegree(m) = 0) =>
                 /\ IssuesOf(m) # {}
                 /\ \A i \in IssuesOf(m) : ~IsHub(coupling_issues[i])

\* a finished analysis whose list holds a hub and a module with 11 incoming
\* and no outgoing edge that is no hub
HubAndElevenIncoming ==
    /\ pc = "done"
    /\ \E i \in DOMAIN coupling_issues : IsHub(coupling_issues[i])
    /\ \E m \in Keys :
         /\ InDegree(m) = 11 /\ OutDegree(m) = 0
         /\ \E i \in IssuesOf(m) : ~IsHub(coupling_issues[i])

\* C9 as stated: the list is sorted by total descending and issues of equal
\* total are in path order.
TiesInPathOrder ==
    pc = "done" =>
        \A i, j \in DOMAIN coupling_issues :
            i < j =>
                \/ coupling_issues[i].total > coupling_issues[j].total
                \/ /\ coupling_issues[i].total = coupling_issues[j].total
                   /\ coupling_issues[i].module < coupling_issues[j].module

\* C9 (amended): the list is sorted by total descending and issues of equal
\* total are in the order in which their modules were inserted into the
\* module map.
TiesInInsertionOrder ==
    pc = "done" =>
        \A i, j \in DOMAIN coupling_issues :
            i < j =>
                \/ coupling_issues[i].total > coupling_issues[j].total
                \/ /\ coupling_issues[i].total = coupling_issues[j].total
                   /\ Position(coupling_issues[i].module)
                        < Position(coupling_issues[j].module)

\* a finished analysis whose list holds issues of different totals and two
\* issues of equal total whose modules were inserted in reverse path order
TiesAgainstPathOrder ==
    /\ pc = "done"
    /\ \E i, j, k \in DOMAIN coupling_issues :
         /\ i < j
         /\ coupling_issues[i].total = coupling_issues[j].total
         /\ coupling_issues[i].module > coupling_issues[j].module
         /\ coupling_issues[k].total # coupling_issues[i].total

\* C10: for every module of a built graph the incoming count analyze_coupling
\* recomputes equals the stored imported_by_count, and every issue carries
\* that count as incoming, the module's import_count as outgoing and their
\* sum as total.
CouplingCountsAgree ==
    pc \in {"coupling", "done"} =>
        /\ \A m \in Keys : ImportedBy(m, modules, order) = modules[m].imported_by_count
        /\ \A i \in DOMAIN coupling_issues :
             LET issue == coupling_issues[i]
             IN  /\ issue.incoming = modules[issue.module].imported_by_count
                 /\ issue.outgoing = modules[issue.module].import_count
                 /\ issue.total = issue.incoming + issue.outgoing

\* a finished analysis with an issue whose module imports itself and a file
\* that is not a module
SelfImportingIssue ==
    /\ pc = "done"
    /\ \E i \in DOMAIN coupling_issues :
         LET m == coupling_issues[i].module
         IN  /\ m \in modules[m].imports
             /\ modules[m].imports \ Keys # {}

\* ---- layers --------------------------------------------------------------
\* the directory names of a path string that have a segment before them and
\* one after them
InnerDirs(path) == { path[i] : i \in 2..(Len(path) - 1) }

LayerOrder == << "presentation", "application", "domain", "infrastructure" >>

LayerDirs ==
    [ presentation |-> {"components", "pages", "views", "ui"},
      application |-> {"services", "usecases", "application"},
      domain |-> {"domain", "models", "entities"},
      infrastructure |-> {"infrastructure", "repositories", "adapters", "db"} ]

Permitted ==
    [ presentation |-> {"application", "domain"},
      application |-> {"domain"},
      domain |-> {},
      infrastructure |-> {"domain"} ]

\* the layers one of whose patterns matches the path of p
LayersOf(p) ==
    { n \in DOMAIN LayerOrder : LayerDirs[LayerOrder[n]] \cap InnerDirs(ModulePath(p)) # {} }

Classified(p) == LayersOf(p) # {}

\* the first matching layer of a classified path
FirstLayer(p) == LayerOrder[Min(LayersOf(p))]

\* the triples recorded for the edge from s to t
Recorded(s, t) ==
    { i \in DOMAIN layer_violations :
        layer_violations[i][1] = s /\ layer_violations[i][2] = t }

\* C11: detect_layer_violations records (source, target, "<sourceLayer> →
\* <targetLayer>") for an edge exactly when both ends are classified, the
\* target layer is not the source layer and is not in the permitted set of
\* the source layer; it records a triple once and for edges only.
ViolationIffNotPermitted ==
    pc = "done" =>
        /\ \A i \in DOMAIN layer_violations :
             /\ layer_violations[i][1] \in Keys
             /\ layer_violations[i][2] \in modules[layer_violations[i][1]].imports
        /\ \A s \in Keys : \A t \in modules[s].imports :
             IF /\ Classified(s) /\ Classified(t)
                /\ FirstLayer(t) # FirstLayer(s)
                /\ FirstLayer(t) \notin Permitted[FirstLayer(s)]
             THEN /\ Cardinality(Recorded(s, t)) = 1
                  /\ \A i \in Recorded(s, t) :
                       layer_violations[i][3] = FirstLayer(s) \o " → " \o FirstLayer(t)
             ELSE Recorded(s, t) = {}

\* a finished analysis with a domain file importing a domain file, which is
\* not recorded, and an infrastructure file importing a presentation file,
\* which is
SameLayerAndUpward ==
    /\ pc = "done"
    /\ \E s, t \in Keys :
         /\ t \in modules[s].imports
         /\ LayersOf(s) = {3} /\ LayersOf(t) = {3}
         /\ Recorded(s, t) = {}
    /\ \E s, t \in Keys :
         /\ t \in modules[s].imports
         /\ LayersOf(s) = {4} /\ 1 \in LayersOf(t)
         /\ Recorded(s, t) # {}

\* C12: no triple returned by detect_layer_violations has a source or a target
\* that matches no layer pattern: edges from or to an unclassified path are
\* skipped.
OnlyClassifiedRecorded ==
    \A i \in DOMAIN layer_violations :
        Classified(layer_violations[i][1]) /\ Classified(layer_violations[i][2])

\* a finished analysis whose violations are not empty, with an unclassified
\* module importing a classified file and a classified module importing an
\* unclassified file
UnclassifiedEndsSkipped ==
    /\ pc = "done"
    /\ layer_violations # << >>
    /\ \E s \in Keys : \E t \in modules[s].imports :
         ~Classified(s) /\ Classified(t) /\ Recorded(s, t) = {}
    /\ \E s \in Keys : \E t \in modules[s].imports :
         Classified(s) /\ ~Classified(t) /\ Recorded(s, t) = {}

\* C13: get_layer gives a path at most one layer, the first one in the order
\* presentation, application, domain, infrastructure that has a pattern
\* matching the path: every recorded label names the first matching layers of
\* its source and its target, an edge has one label at most, and an edge that
\* the first matching layers permit is not recorded, whatever other layers
\* the paths match.
FirstMatchingLayerWins ==
    pc = "done" =>
        /\ \A i \in DOMAIN layer_violations :
             /\ Classified(layer_violations[i][1])
             /\ Classified(layer_violations[i][2])
             /\ layer_violations[i][3] =
                    FirstLayer(layer_violations[i][1]) \o " → "
                        \o FirstLayer(layer_violations[i][2])
        /\ \A i, j \in DOMAIN layer_violations :
             /\ layer_violations[i][1] = layer_violations[j][1]
             /\ layer_violations[i][2] = layer_violations[j][2]
             => layer_violations[i][3] = layer_violations[j][3]
        /\ \A s \in Keys : \A t \in modules[s].imports :
             /\ Cardinality(LayersOf(s)) >= 2 /\ Classified(t)
             /\ FirstLayer(t) \in Permitted[FirstLayer(s)]
             => Recorded(s, t) = {}

\* a finished analysis with a recorded violation between two paths that each
\* match two layers, and with the file under components/domain importing an
\* application file without a violation
SeveralLayersMatch ==
    /\ pc = "done"
    /\ \E i \in DOMAIN layer_violations :
         /\ Cardinality(LayersOf(layer_violations[i][1])) >= 2
         /\ Cardinality(LayersOf(layer_violations[i][2])) >= 2
    /\ \E s \in Keys : \E t \in modules[s].imports :
         /\ LayersOf(s) = {1, 3}
         /\ Classified(t) /\ FirstLayer(t) = "application"
         /\ Recorded(s, t) = {}

\* ---- resolution ----------------------------------------------------------
\* the file the next iteration of the walk analyses, and the project root
NextFile == Head(walk)

ProjectRoot == Abspath(dirpath)

\* the module path of the file the next iteration analyses
NextModule == PathId(NormalizePath(NextFile.filepath, ProjectRoot), ProjectRoot)

\* the imports of a module one of whose import paths resolves to the path
\* string resolved, or to nothing
ImportsFor(resolved) ==
    IF resolved = NoPath THEN {} ELSE { PathId(resolved, ProjectRoot) }

\* the number of leading ".." segments of an import path
LeadingUps(import_path) ==
    Cardinality({ i \in DOMAIN import_path : \A j \in 1..i : import_path[j] = ".." })

\* an import path "./r" or with leading "../" segments and a remainder
IsRelative(import_path) ==
    /\ Len(import_path) >= 2
    /\ import_path[1] \in {".", ".."}
    /\ LeadingUps(import_path) < Len(import_path)

\* the directory of filepath moved up k levels, joined with the remainder r
\* of the import path unchanged
StatedStart(import_path, filepath) ==
    LET names == Tail(Abspath(filepath))
        k == LeadingUps(import_path)
        up == SubSeq(names, 1, Max({Len(names) - 1 - k, 0}))
        r == IF import_path[1] = "." THEN Tail(import_path)
             ELSE SubSeq(import_path, k + 1, Len(import_path))
    IN  << "" >> \o up \o r

\* C14: a relative import path is resolved against the directory of the
\* importing file: "./r" names r in that directory, and k leading "../"
\* segments followed by r name r in that directory moved up k levels, r
\* joined unchanged; the result is the first probed variant of that path.
RelativeFromImportingDir ==
    [][ (/\ pc = "scan" /\ walk # << >>
         /\ NextFile.content # << >>
         /\ IsRelative(NextFile.content[1]))
        => modules'[NextModule].imports =
              ImportsFor(Probe(StatedStart(NextFile.content[1], NextFile.filepath),
                               ProjectRoot, 1)) ]_vars

\* an import path "@/r" or "~/r"
IsAlias(import_path) == Len(import_path) >= 2 /\ import_path[1] \in {"@", "~"}

\* C15: an import path "@/r" or "~/r" resolves to the first probed variant of
\* r under the project root, whatever the importing file is.
AliasFromProjectRoot ==
    [][ (/\ pc = "scan" /\ walk # << >>
         /\ NextFile.content # << >>
         /\ IsAlias(NextFile.content[1]))
        => modules'[NextModule].imports =
              ImportsFor(Probe(ProjectRoot \o Tail(NextFile.content[1]), ProjectRoot, 1)) ]_vars

\* two modules in different directories have been analysed, their text has
\* the root-aliased import of the file analysed next, and both import the
\* same one file
SameAliasTwoDirs ==
    /\ pc = "scan" /\ walk # << >>
    /\ NextFile.content # << >>
    /\ IsAlias(NextFile.content[1])
    /\ \E a, b \in Keys :
         /\ Front(disk[a]) # Front(disk[b])
         /\ modules[a].imports = modules[b].imports
         /\ Cardinality(modules[a].imports) = 1

\* a bare specifier: it starts with none of '.', '@/', '~/' and '/'
IsBare(import_path) ==
    /\ ~(Len(import_path[1]) >= 1 /\ SubSeq(import_path[1], 1, 1) = ".")
    /\ ~IsAlias(import_path)
    /\ ~StartsWithSlash(import_path)

\* neither <project root>/<specifier> nor <project root>/<specifier>.ts exists
IsExternal(import_path) ==
    /\ ~Exists(ProjectRoot \o import_path)
    /\ ~Exists(Concat(ProjectRoot \o import_path, << ".ts" >>))

\* C16: a bare specifier for which neither <project root>/<specifier> nor
\* <project root>/<specifier>.ts exists adds no entry to the imports of the
\* importing module, so the module has no edge for it.
ExternalAddsNothing ==
    [][ (/\ pc = "scan" /\ walk # << >>
         /\ NextFile.content # << >>
         /\ IsBare(NextFile.content[1])
         /\ IsExternal(NextFile.content[1]))
        => /\ NextModule \in DOMAIN modules'
           /\ modules'[NextModule].imports = {}
           /\ modules'[NextModule].import_count = 0 ]_vars

\* modules have been analysed whose text has the bare specifier of the file
\* analysed next, lib/u; neither lib/u nor lib/u.ts exists under the project
\* root, another variant of lib/u does, and no module has an import
ExternalBesideVariant ==
    /\ pc = "scan" /\ walk # << >>
    /\ NextFile.content = << << "lib", "u" >> >>
    /\ IsExternal(NextFile.content[1])
    /\ \E n \in 2..Len(ProbeExts) :
         IsFile(Concat(ProjectRoot \o NextFile.content[1], ProbeExts[n]))
    /\ Cardinality(Keys) >= 2
    /\ \A m \in Keys : modules[m].imports = {}

\* the candidates for the path string start, in the stated order
Candidates(start) ==
    << start, Concat(start, << ".ts" >>), Concat(start, << ".tsx" >>),
       Concat(start, << ".js" >>), Concat(start, << ".jsx" >>),
       Concat(start, << ".py" >>), start \o << "index.ts" >>,
       start \o << "index.js" >> >>

\* the candidates that are regular files
Hits(start) == { n \in DOMAIN Candidates(start) : IsFile(Candidates(start)[n]) }

\* the path the probing of an import path starts from, for the import paths
\* that name it by themselves
StartOf(import_path) ==
    IF IsAlias(import_path) THEN ProjectRoot \o Tail(import_path) ELSE import_path

\* C17: the candidates <path>, <path>.ts, .tsx, .js, .jsx, .py, /index.ts,
\* /index.js are probed in that order and the first one that is a regular
\* file is the result, the earlier one when several exist; a result always
\* names a regular file of the disk.
FirstCandidateWins ==
    [][ /\ \A m \in DOMAIN modules' : modules'[m].imports \subseteq DOMAIN disk
        /\ (/\ pc = "scan" /\ walk # << >>
            /\ NextFile.content # << >>
            /\ IsAlias(NextFile.content[1]) \/ StartsWithSlash(NextFile.content[1]))
           => LET start == StartOf(NextFile.content[1])
              IN  modules'[NextModule].imports =
                     IF Hits(start) = {} THEN {}
                     ELSE { Index(disk, Abspath(Candidates(start)[Min(Hits(start))])) } ]_vars

\* a module has been analysed whose text has the import of the file analysed
\* next; two candidates of that import are regular files, and the module
\* imports the earlier one
TwoCandidatesExist ==
    /\ pc = "scan" /\ walk # << >>
    /\ NextFile.content # << >>
    /\ IsAlias(NextFile.content[1]) \/ StartsWithSlash(NextFile.content[1])
    /\ LET start == StartOf(NextFile.content[1])
       IN  /\ Cardinality(Hits(start)) >= 2
           /\ \E m \in Keys :
                modules[m].imports = { Index(disk, Abspath(Candidates(start)[Min(Hits(start))])) }

\* a path string in the form os.path.relpath gives: ".." segments first,
\* then names, with no empty segment and no "." among them
IsNormalForm(path) ==
    /\ path # << >>
    /\ \A i \in DOMAIN path :
         /\ path[i] \notin {"", "."}
         /\ path[i] = ".." => \A j \in 1..i : path[j] = ".."

\* C18: for every import path, importing file and project root the result
\* of resolve_import is None or the canonical path of a regular file, the
\* one string that names that file from the project root; it is None
\* whenever no probed variant is a regular file, and the importing module
\* then gets no import.
NoneOrCanonicalPath ==
    [][ (/\ pc = "scan" /\ walk # << >>
         /\ NextFile.content # << >>)
        => LET import_path == NextFile.content[1]
               start == Resolved(import_path, NextFile.filepath, ProjectRoot)
               result == ResolveImport(import_path, NextFile.filepath, ProjectRoot)
           IN  /\ (start = NoPath \/ Hits(start) = {}) =>
                     result = NoPath /\ modules'[NextModule].imports = {}
               /\ result # NoPath =>
                     /\ IsNormalForm(result)
                     /\ \E f \in DOMAIN disk :
                          /\ result = PathName(f, ProjectRoot)
                          /\ modules'[NextModule].imports = { f } ]_vars

\* modules have been analysed whose text has the import of the file
\* analysed next, '~/a/b'; a/b exists under the project root as a directory,
\* no candidate is a regular file, and no module has an import
OnlyDirectoryExists ==
    /\ pc = "scan" /\ walk # << >>
    /\ NextFile.content = << << "~", "a", "b" >> >>
    /\ Exists(StartOf(NextFile.content[1]))
    /\ Hits(StartOf(NextFile.content[1])) = {}
    /\ Cardinality(Keys) >= 2
    /\ \A m \in Keys : modules[m].imports = {}

\* ---- the module map -------------------------------------------------------
\* C19: the imports of a module hold each imported file once and no None,
\* also when the text has the same import several times or imports that do
\* not resolve, and import_count is the number of entries of imports.
ImportsDeduplicated ==
    \A m \in Keys :
        /\ None \notin modules[m].imports
        /\ modules[m].imports \subseteq DOMAIN disk
        /\ modules[m].import_count = Cardinality(modules[m].imports)

\* the texts of the tree start with an import that does not resolve and have
\* every other import twice, by two import paths, and a module analysed from
\* such a text has imports
RepeatedAndUnresolved ==
    /\ pc = "scan" /\ walk # << >>
    /\ Head(walk).content # << >>
    /\ Head(walk).content[1] = << "lodash" >>
    /\ \E m \in Keys : modules[m].import_count >= 1

Named(content) ==
    { p \in DOMAIN disk :
        \E i \in DOMAIN content :
            /\ IsAlias(content[i])
            /\ Cwd \o dirpath \o Tail(content[i]) = disk[p] }

\* C21: an iteration of the walk over a file that cannot be read leaves the
\* module map as it is and the loop goes on; an iteration over any other file
\* adds the module of that file with the imports its text names, whichever
\* files could not be read before it, and changes no other module; and from
\* an iteration over a file that cannot be read the run leads to the end of
\* the three analyses, with a scanned file missing from the module map.
UnreadableFileSkipped ==
    /\ [][ (pc = "scan" /\ walk # << >>)
           => /\ pc' = "scan"
              /\ walk' = Tail(walk)
              /\ IF NextFile.readable
                 THEN /\ DOMAIN modules' = Keys \cup {NextModule}
                      /\ modules'[NextModule].imports = Named(NextFile.content)
                      /\ \A m \in Keys \ {NextModule} : modules'[m] = modules[m]
                 ELSE modules' = modules ]_vars
    /\ (pc = "scan" /\ walk # << >> /\ ~NextFile.readable)
          ~> (pc = "done" /\ Keys # Walked(dirpath, disk))

\* a finished analysis of a tree with a file that could not be read: it is
\* not in the module map, a module imports it, and a cycle was found among
\* the other files
AnalysedWithoutUnreadable ==
    /\ pc = "done"
    /\ \E f \in Walked(dirpath, disk) \ Keys :
         \E m \in Keys : f \in modules[m].imports
    /\ circular_dependencies # << >>

\* the report analyze_directory returns names the file f: as a key of the
\* module map, in the imports of a module, in a cycle or in a violation
InReport(f) ==
    \/ f \in Keys
    \/ \E m \in Keys : f \in modules[m].imports
    \/ \E i \in DOMAIN circular_dependencies : f \in Range(circular_dependencies[i])
    \/ \E i \in DOMAIN layer_violations :
          f \in { layer_violations[i][1], layer_violations[i][2] }

\* C22: every file the walk handed to analyze_file and that was skipped
\* because it could not be read is observable by the caller of
\* analyze_directory: the report returned names it.
SkippedFilesObservable ==
    pc = "done" => \A f \in Walked(dirpath, disk) : InReport(f)

\* C23: no step of find_circular_dependencies, analyze_coupling or
\* detect_layer_violations changes the module map or the order of its keys,
\* so what analyze_coupling and detect_layer_violations returned is what they
\* return on the module map of the finished run, after the other analyses.
AnalysesLeaveModules ==
    /\ [][ pc # "scan" => modules' = modules /\ order' = order ]_vars
    /\ [](pc = "done" =>
            /\ coupling_issues = AnalyzeCouplingResult(modules, order)
            /\ \E descending \in BOOLEAN :
                 layer_violations = Violations(modules, order, descending))

\* the three analyses have run on a module map with a module that imports
\* itself and is imported by two modules, and a cycle of two modules
ThreeAnalysesRan ==
    /\ pc = "done"
    /\ \E m \in Keys : m \in modules[m].imports /\ modules[m].imported_by_count >= 2
    /\ \E i \in DOMAIN circular_dependencies : Len(circular_dependencies[i]) = 2

\* the module path of a file the walk yields
ModuleOf(file) == CHOOSE p \in DOMAIN disk : disk[p] = Cwd \o file.filepath

\* the files the walk has yet to yield and that can be read
Awaited == { i \in DOMAIN walk : walk[i].readable }

\* the imports of every module of the map and, for every readable file yet
\* to be analysed, the files its text names: a function of the set of files
\* of the tree, whatever the order of the walk
TreeImports ==
    [ f \in Keys \cup { ModuleOf(walk[i]) : i \in Awaited } |->
        IF f \in Keys THEN modules[f].imports
        ELSE Named(walk[CHOOSE i \in Awaited : ModuleOf(walk[i]) = f].content) ]

\* C24: the module map does not depend on the order in which the files are
\* analysed: every step of the build leaves the imports of the modules
\* analysed so far, together with those the texts of the files yet to come
\* name, as they are, so the keys and imports of the built map are those of
\* the set of files; and import_count and imported_by_count are the size of
\* imports and the number of importing modules of that map.
ModuleMapOrderFree ==
    /\ [][ pc = "scan" => TreeImports' = TreeImports ]_vars
    /\ [](pc # "scan" =>
            \A m \in Keys :
                /\ modules[m].path = m
                /\ modules[m].import_count = Cardinality(modules[m].imports)
                /\ modules[m].imported_by_count
                       = Cardinality({ n \in Keys : m \in modules[n].imports }))

\* a module map built from a walk that yielded the files against path order,
\* the file analysed first importing one analysed after it
BuiltAgainstPathOrder ==
    /\ pc = "cycles"
    /\ Len(order) = MaxFiles
    /\ \A i \in 1..(Len(order) - 1) : order[i] > order[i + 1]
    /\ \E m \in modules[order[1]].imports : m \in Keys /\ m # order[1]

\* ---- the cycles and the order of iteration ---------------------------------
\* find_circular_dependencies run with the modules and the imports of each
\* module iterated in path order: DfsInPathOrder is one call dfs(node, path)
\* and EachInPathOrder the loop over nodes, on the record run of the sets
\* visited and rec_stack and the member sets found of the cycles emitted
RECURSIVE DfsInPathOrder(_, _, _)
RECURSIVE EachInPathOrder(_, _, _)
DfsInPathOrder(node, path, run) ==
    IF node \in run.rec_stack
    THEN [run EXCEPT !.found = @ \cup { Range(SubSeq(path, Index(path, node), Len(path))) }]
    ELSE IF node \in run.visited THEN run
    ELSE [ EachInPathOrder(Ascending(modules[node].imports \cap Keys),
                           Append(path, node),
                           [run EXCEPT !.visited = @ \cup {node},
                                       !.rec_stack = @ \cup {node}])
             EXCEPT !.rec_stack = @ \ {node} ]

EachInPathOrder(nodes, path, run) ==
    IF nodes = << >> THEN run
    ELSE EachInPathOrder(Tail(nodes), path, DfsInPathOrder(Head(nodes), path, run))

\* the member sets of the cycles that run returns
MemberSetsInPathOrder ==
    EachInPathOrder(Ascending(Keys), << >>,
                    [visited |-> {}, rec_stack |-> {}, found |-> {}]).found

\* the member sets of the cycles returned
MemberSets == { Range(circular_dependencies[i]) : i \in DOMAIN circular_dependencies }

\* C25: the member sets of the cycles find_circular_dependencies returns do
\* not depend on the order in which the modules and the imports of a module
\* are iterated: they are those of the run that iterates both in path order.
CyclesOrderFree ==
    CyclesReturned => MemberSets = MemberSetsInPathOrder

\* ---- the sequence of the passes --------------------------------------------
\* no analysis has taken a step
AnalysesNotStarted ==
    /\ visited = {} /\ rec_stack = {} /\ stack = << >> /\ cycles = << >>
    /\ circular_dependencies = << >>
    /\ coupling_issues = << >>
    /\ layer_violations = << >>

\* C26: while files are being analysed no imported_by_count has been written
\* and no analysis has started; the imported_by_count pass runs when the walk
\* is exhausted, on the module map with every module and its imports in it;
\* and whenever an analysis is running or has run, the walk is exhausted and
\* every module has its imported_by_count.
PassesInSequence ==
    /\ [](pc = "scan" =>
            /\ AnalysesNotStarted
            /\ \A m \in Keys : modules[m].imported_by_count = 0)
    /\ [][ (pc = "scan" /\ pc' # "scan")
           => /\ walk = << >>
              /\ DOMAIN modules' = Keys
              /\ \A m \in Keys : modules'[m].imports = modules[m].imports ]_vars
    /\ [](pc # "scan" =>
            /\ walk = << >>
            /\ \A m \in Keys :
                 modules[m].imported_by_count
                    = Cardinality({ n \in Keys : m \in modules[n].imports }))

\* the dfs is under way on a module map of MaxFiles modules in which a module
\* has the count of MaxFiles importers
DfsAfterCounts ==
    /\ pc = "cycles" /\ stack # << >>
    /\ Cardinality(Keys) = MaxFiles
    /\ \E m \in Keys : modules[m].imported_by_count = MaxFiles

\* ---- reading the files -----------------------------------------------------
\* the files the walk has yet to hand to analyze_file, which opens and reads
\* the file it is given
ToRead == [ i \in DOMAIN walk |-> ModuleOf(walk[i]) ]

\* C27: every file the walk finds is read exactly once: at the start each is
\* due to be read once; a file due to be read is due once and has not been
\* read before; a step that reads is a step of the builder's loop and takes
\* one file off those due, and the loop does so while a file is due; and the
\* imported_by_count pass and the analyses run when no file is due and make
\* none due.
EachFileReadOnce ==
    /\ Range(ToRead) = Walked(dirpath, disk)
    /\ [](/\ \A i, j \in DOMAIN walk : ToRead[i] = ToRead[j] => i = j
          /\ Range(ToRead) \cap Keys = {})
    /\ [][ /\ walk' # walk => pc = "scan" /\ walk' = Tail(walk)
           /\ (pc = "scan" /\ walk # << >>) => walk' = Tail(walk) ]_vars
    /\ [](pc # "scan" => walk = << >>)

\* a finished analysis in which every file of the tree was read and each
\* imports every file, itself included
EveryFileReadAndImported ==
    /\ pc = "done"
    /\ Keys = Walked(dirpath, disk)
    /\ Cardinality(Keys) = MaxFiles
    /\ \A m \in Keys : modules[m].imports = Keys

\* ---- the dfs ---------------------------------------------------------------
\* C28: in every state rec_stack is a subset of visited and is the set of the
\* elements of the path of the innermost active call of dfs, which lists the
\* nodes of the active calls; it is empty when no call is active; and
\* path.index(node) never fails.
RecStackIsPath ==
    /\ pc # "error"
    /\ rec_stack \subseteq visited
    /\ IF stack = << >> THEN rec_stack = {}
       ELSE /\ stack[Len(stack)].path = CurrentPath
            /\ rec_stack = Range(CurrentPath)

\* a cycle through MaxFiles modules has just been emitted: the neighbour was
\* found in rec_stack at the start of the path, with every call still active
FoundOnPath ==
    /\ pc = "cycles"
    /\ Len(stack) = MaxFiles
    /\ cycles # << >>
    /\ cycles[Len(cycles)] = CurrentPath

\* C29: find_circular_dependencies ends on every module graph and only by
\* returning: no call of dfs fails, no module is in two active calls, every
\* module of an active call is in visited, and when the function has
\* returned every module of the map is in visited.
DfsEndsVisitingAll ==
    /\ pc # "error"
    /\ \A i, j \in DOMAIN stack : stack[i].node = stack[j].node => i = j
    /\ Range(CurrentPath) \subseteq visited
    /\ pc \notin {"scan", "cycles"} => Keys \subseteq visited

\* C30: when find_circular_dependencies returns, the list returned is not
\* empty if and only if the graph of the internal edges has a directed
\* cycle, a module that imports itself included.
NonEmptyIffCyclic ==
    CyclesReturned => (circular_dependencies # << >> <=> SimpleCycles # {})

\* the function has returned cycles, but not one for every cycle of the graph
SomeCycleReturned ==
    /\ CyclesReturned
    /\ circular_dependencies # << >>
    /\ \E c \in SimpleCycles : Range(c) \notin MemberSets

====
